---- MODULE Spec2Model ----
(***************************************************************************)
(* Model of the authentication gateway of Cynorix-Code-Sample:             *)
(*   - the UsersHash exchange store (database/user.js: createUserHash,     *)
(*     getUserIdFromHash, deleteOldHashes),                                *)
(*   - the validation chains and AuthValidate (userMiddleware.js),         *)
(*   - the access token routes (userRoutes.js).                            *)
(***************************************************************************)
EXTENDS Integers, Sequences, FiniteSets, TLC

\* ------------------------------------------------------------------------
\* Bounds of the model
\* ------------------------------------------------------------------------
MaxTicks == 2
MaxOps == 4
MaxRequests == 2

\* ------------------------------------------------------------------------
\* Program constants
\* ------------------------------------------------------------------------
\* age in ms after which a hash is expired (literal 60000 in the source)
TTL == 60000

\* createError(401, ...), createError(410, ...), and the value returned
NotFound == 401
Expired == 410
Returned == 200

\* ------------------------------------------------------------------------
\* Exchange store: values
\* ------------------------------------------------------------------------
\* userIds and secrets are strings, modelled as sequences of characters
Subjects == { <<"a">>, <<"a", "|", "|", "b">> }
Secrets == { <<"s">>, <<"b", "|", "|", "s">> }

\* cryptLib.getHashSha256(userId + "||" + secret, 64): the digest is a
\* function of the concatenated string only; it is modelled as a tagged
\* copy of its input (collision free on the strings of the model).
getHashSha256(str) == <<"sha256">> \o str

hashedUserIdOf(userId, secret) == getHashSha256(userId \o <<"|", "|">> \o secret)

\* the (userId, secret) pairs createUserHash is called with
PutInputs == { <<u, s>> \in Subjects \X Secrets : u # <<"a", "|", "|", "b">> \/ s = <<"s">> }

HashIds == { hashedUserIdOf(i[1], i[2]) : i \in PutInputs }

NoDoc == [exists |-> FALSE]

ResolveProcs == {"r1", "r2"}
Sweeper == "sweep"

\* elapsed time between two steps, in ms
TickSteps == {1, TTL}

VARIABLES
  now,          \* wall clock, ms (new Date().getTime())
  ticks,        \* number of clock advances so far
  UsersHash,    \* the UsersHash collection: doc id -> document or NoDoc
  gen,          \* number of documents written so far (ghost: names a write)
  ppc,          \* createUserHash: position
  pdoc,         \* createUserHash: doc id and document of the pending set()
  rpc,          \* getUserIdFromHash: position of each caller
  rhash,        \* getUserIdFromHash: hashedUserId argument
  ruser,        \* getUserIdFromHash: the snapshot `user`
  rresult,      \* getUserIdFromHash: outcome of the finished call
  rseen,        \* ghost: how the last finished lookup had ended when this one read
  rage,         \* ghost: currentTime - hashedTime as computed at line 161
  spc,          \* deleteOldHashes: position
  stime,        \* deleteOldHashes: currentTime
  ops,          \* number of store operations started so far
  pending,      \* delete() calls issued by deleteOldHashes, not yet applied
  consumed,     \* ghost: how the last finished lookup of a hash ended
  reports       \* ghost: <<contender, gen, outcome>> of every delete-and-report

VARIABLES
  Accounts,     \* the Users collection: userId -> account document
  Devices,      \* the devices of each user: counts by kind
  issued,       \* access tokens handed out in cookies so far
  requests,     \* number of requests received so far
  gpc,          \* position of the request in its middleware stack
  req,          \* the request: route, headers, cookies, params, body
  idx,          \* index of the next validation chain to run
  errors,       \* validationResult(req): the errors collected so far
  ran,          \* ghost: the custom validators executed for this request
  vup,          \* VerifyUpdatePhoneNumber: phoneVerified and the counts read
  responses,    \* the responses written for this request
  handlerCalls  \* number of times the route handler was invoked

VARIABLES
  caps,         \* ghost: the capability sets computed for this request
  locals,       \* the account and the count a route handler has read so far
  hasAccess,    \* req.body.hasAccess: <<>> while not set, or <<value>>
  softNext,     \* number of next() calls of CheckAccessTokenMiddleware
  cookieJar,    \* the accessToken cookies set by res.cookie so far
  seen          \* ghost: the devices the user of the request has had since
                \* its first count was read

clockVars == <<now, ticks>>

storeVars == <<UsersHash, gen, ppc, pdoc, rpc, rhash, ruser, rresult, rseen,
               rage, spc, stime, ops, pending, consumed, reports>>

capVars == <<caps, locals, hasAccess, softNext, cookieJar, seen>>

gateVars == <<Accounts, Devices, issued, requests, gpc, req, idx, errors, ran,
              vup, responses, handlerCalls, capVars>>

vars == <<clockVars, storeVars, gateVars>>

NoResult == [status |-> 0, userId |-> <<>>]

StoreInit ==
  /\ now = 0
  /\ ticks = 0
  /\ UsersHash = [h \in HashIds |-> NoDoc]
  /\ gen = 0
  /\ ppc = "idle"
  /\ pdoc = [id |-> <<>>, doc |-> NoDoc]
  /\ rpc = [p \in ResolveProcs |-> "idle"]
  /\ rhash = [p \in ResolveProcs |-> <<>>]
  /\ ruser = [p \in ResolveProcs |-> NoDoc]
  /\ rresult = [p \in ResolveProcs |-> NoResult]
  /\ rseen = [p \in ResolveProcs |-> "none"]
  /\ rage = [p \in ResolveProcs |-> 0]
  /\ spc = "idle"
  /\ stime = 0
  /\ ops = 0
  /\ pending = {}
  /\ consumed = [h \in HashIds |-> "none"]
  /\ reports = {}

\* ------------------------------------------------------------------------
\* Time. A request reads the clock at one instant (the token check of its
\* chain, or the signing in its handler), so time passes between requests.
\* ------------------------------------------------------------------------
Tick(d) ==
  /\ ticks < MaxTicks
  /\ gpc = "idle"
  /\ now' = now + d
  /\ ticks' = ticks + 1
  /\ UNCHANGED <<storeVars, gateVars>>

\* ------------------------------------------------------------------------
\* createUserHash(userId, secret)
\* ------------------------------------------------------------------------
\* lines 57-60 up to the await: the hash and currentTime are computed and
\* set() is issued
createUserHashCall(userId, secret) ==
  /\ ppc = "idle"
  /\ ops < MaxOps
  /\ ops' = ops + 1
  /\ ppc' = "set"
  /\ pdoc' = [id |-> hashedUserIdOf(userId, secret),
              doc |-> [exists |-> TRUE, userId |-> userId, timestamp |-> now,
                       secret |-> secret, gen |-> gen + 1, over |-> 0]]
  /\ gen' = gen + 1
  /\ UNCHANGED <<gateVars, now, ticks, UsersHash, rpc, rhash, ruser, rresult, rseen, rage,
                 spc, stime, pending, consumed, reports>>

\* ghost: the write an entry took the place of while that one was live at
\* time t, 0 when there was none
Live(doc, t) ==
  IF doc.exists /\ ~(t - doc.timestamp > TTL) THEN doc.gen ELSE 0

\* the set() is applied by the store: it replaces whatever the id holds
createUserHashSet ==
  /\ ppc = "set"
  /\ UsersHash' = [UsersHash EXCEPT ![pdoc.id] =
        [pdoc.doc EXCEPT !.over = Live(UsersHash[pdoc.id], now)]]
  /\ consumed' = [consumed EXCEPT ![pdoc.id] = "none"]
  /\ ppc' = "idle"
  /\ pdoc' = [id |-> <<>>, doc |-> NoDoc]
  /\ UNCHANGED <<gateVars, now, ticks, gen, rpc, rhash, ruser, rresult, rseen, rage, spc,
                 stime, ops, pending, reports>>

\* ------------------------------------------------------------------------
\* getUserIdFromHash(hashedUserId)
\* ------------------------------------------------------------------------
getUserIdFromHashCall(p, hashedUserId) ==
  /\ rpc[p] \in {"idle", "done"}
  /\ ops < MaxOps
  /\ ops' = ops + 1
  /\ rpc' = [rpc EXCEPT ![p] = "get"]
  /\ rhash' = [rhash EXCEPT ![p] = hashedUserId]
  /\ ruser' = [ruser EXCEPT ![p] = NoDoc]
  /\ rresult' = [rresult EXCEPT ![p] = NoResult]
  /\ rseen' = [rseen EXCEPT ![p] = "none"]
  /\ rage' = [rage EXCEPT ![p] = 0]
  /\ UNCHANGED <<gateVars, now, ticks, UsersHash, gen, ppc, pdoc, spc, stime,
                 pending, consumed, reports>>

\* line 154-157: the get() is answered by the store; an absent document
\* throws 401
getUserIdFromHashGet(p) ==
  /\ rpc[p] = "get"
  /\ ruser' = [ruser EXCEPT ![p] = UsersHash[rhash[p]]]
  /\ rseen' = [rseen EXCEPT ![p] = consumed[rhash[p]]]
  /\ IF ~UsersHash[rhash[p]].exists
       THEN /\ rpc' = [rpc EXCEPT ![p] = "done"]
            /\ rresult' = [rresult EXCEPT ![p] = [status |-> NotFound, userId |-> <<>>]]
       ELSE /\ rpc' = [rpc EXCEPT ![p] = "check"]
            /\ UNCHANGED rresult
  /\ UNCHANGED <<gateVars, now, ticks, UsersHash, gen, ppc, pdoc, rhash, rage, spc,
                 stime, ops, pending, consumed, reports>>

\* the expiry test with the TTL taken in seconds instead of milliseconds
IsExpired_Seconds(currentTime, hashedTime) == currentTime - hashedTime > TTL * 1000

\* line 161: the expiry test on the snapshot
IsExpired(currentTime, hashedTime) == currentTime - hashedTime > TTL

\* lines 159-166: currentTime is read when the continuation runs, and one
\* of the two delete() calls is issued
getUserIdFromHashCheck(p) ==
  /\ rpc[p] = "check"
  /\ rpc' = [rpc EXCEPT ![p] =
        IF IsExpired(now, ruser[p].timestamp) THEN "deleteExpired" ELSE "delete"]
  /\ rage' = [rage EXCEPT ![p] = now - ruser[p].timestamp]
  /\ UNCHANGED <<gateVars, now, ticks, UsersHash, gen, ppc, pdoc, rhash, ruser, rresult,
                 rseen, spc, stime, ops, pending, consumed, reports>>

\* getUserIdFromHash without the delete() of line 166: the entry survives
\* a successful lookup
getUserIdFromHashDelete_KeepOnReturn(p) ==
  /\ rpc[p] \in {"deleteExpired", "delete"}
  /\ UsersHash' = [UsersHash EXCEPT ![rhash[p]] =
        IF rpc[p] = "deleteExpired" THEN NoDoc ELSE @]
  /\ rresult' = [rresult EXCEPT ![p] =
        IF rpc[p] = "deleteExpired"
          THEN [status |-> Expired, userId |-> <<>>]
          ELSE [status |-> Returned, userId |-> ruser[p].userId]]
  /\ consumed' = [consumed EXCEPT ![rhash[p]] =
        IF rpc[p] = "deleteExpired" THEN "expired" ELSE "returned"]
  /\ reports' = reports \cup
        {<<p, ruser[p].gen, IF rpc[p] = "deleteExpired" THEN Expired ELSE Returned>>}
  /\ rpc' = [rpc EXCEPT ![p] = "done"]
  /\ UNCHANGED <<gateVars, now, ticks, gen, ppc, pdoc, rhash, ruser, rseen, rage, spc,
                 stime, ops, pending>>

\* lines 162-163 and 166-168: the delete() is applied by the store (it
\* removes whatever the id holds) and the call throws 410 or returns the
\* userId of the snapshot
getUserIdFromHashDelete(p) ==
  /\ rpc[p] \in {"deleteExpired", "delete"}
  /\ UsersHash' = [UsersHash EXCEPT ![rhash[p]] = NoDoc]
  /\ rresult' = [rresult EXCEPT ![p] =
        IF rpc[p] = "deleteExpired"
          THEN [status |-> Expired, userId |-> <<>>]
          ELSE [status |-> Returned, userId |-> ruser[p].userId]]
  /\ consumed' = [consumed EXCEPT ![rhash[p]] =
        IF rpc[p] = "deleteExpired" THEN "expired" ELSE "returned"]
  /\ reports' = reports \cup
        {<<p, ruser[p].gen, IF rpc[p] = "deleteExpired" THEN Expired ELSE Returned>>}
  /\ rpc' = [rpc EXCEPT ![p] = "done"]
  /\ UNCHANGED <<gateVars, now, ticks, gen, ppc, pdoc, rhash, ruser, rseen, rage, spc,
                 stime, ops, pending>>

\* ------------------------------------------------------------------------
\* deleteOldHashes()
\* ------------------------------------------------------------------------
\* line 318-319 up to the await: currentTime is read, the query is issued
deleteOldHashesCall ==
  /\ spc = "idle"
  /\ ops < MaxOps
  /\ ops' = ops + 1
  /\ spc' = "query"
  /\ stime' = now
  /\ UNCHANGED <<gateVars, now, ticks, UsersHash, gen, ppc, pdoc, rpc, rhash, ruser,
                 rresult, rseen, rage, pending, consumed, reports>>

\* the query with "<=" in the place of "<"
OldHashes_Inclusive(currentTime) ==
  { h \in HashIds : UsersHash[h].exists /\ UsersHash[h].timestamp <= currentTime - TTL }

\* where("timestamp", "<", currentTime.getTime() - 60000)
OldHashes(currentTime) ==
  { h \in HashIds : UsersHash[h].exists /\ UsersHash[h].timestamp < currentTime - TTL }

\* lines 319-326: the query is answered; forEach issues one delete() per
\* document without awaiting it, and the function returns
deleteOldHashesQuery ==
  /\ spc = "query"
  /\ pending' = pending \cup
        { [id |-> h, gen |-> UsersHash[h].gen] : h \in OldHashes(stime) }
  /\ spc' = "idle"
  /\ stime' = 0
  /\ UNCHANGED <<gateVars, now, ticks, UsersHash, gen, ppc, pdoc, rpc, rhash, ruser,
                 rresult, rseen, rage, ops, consumed, reports>>

\* line 323: one of the issued delete() calls is applied by the store
deleteOldHashesDelete(d) ==
  /\ d \in pending
  /\ pending' = pending \ {d}
  /\ UsersHash' = [UsersHash EXCEPT ![d.id] = NoDoc]
  /\ reports' = reports \cup {<<Sweeper, d.gen, Expired>>}
  /\ UNCHANGED <<gateVars, now, ticks, gen, ppc, pdoc, rpc, rhash, ruser, rresult,
                 rseen, rage, spc, stime, ops, consumed>>

\* ------------------------------------------------------------------------
\* Operations of the exchange store
\* ------------------------------------------------------------------------
StoreNext ==
  \/ \E d \in TickSteps : Tick(d)
  \/ \E i \in PutInputs : createUserHashCall(i[1], i[2])
  \/ createUserHashSet
  \/ \E p \in ResolveProcs, h \in HashIds : getUserIdFromHashCall(p, h)
  \/ \E p \in ResolveProcs : getUserIdFromHashGet(p)
  \/ \E p \in ResolveProcs : getUserIdFromHashCheck(p)
  \/ \E p \in ResolveProcs : getUserIdFromHashDelete(p)
  \/ deleteOldHashesCall
  \/ deleteOldHashesQuery
  \/ \E d \in pending : deleteOldHashesDelete(d)

\* ------------------------------------------------------------------------
\* Gateway: values
\* ------------------------------------------------------------------------
Users == {"u1", "u2"}

\* ERROR_CODES of ./validators, with the names of the status table
ERROR_CODES ==
  [MISSING_HEADER |-> "MissingHeader",
   MISSING_BEARER |-> "MissingBearer",
   INVALID_FIREBASE_TOKEN |-> "InvalidIdentityToken",
   DEVICE_EXISTS |-> "DeviceExists",
   PHONE_NUMBER_NOT_VERIFIED |-> "PhoneNumberNotVerified",
   MISSING_PARAMATER |-> "MissingParameter",
   INVALID_ACCESS_TOKEN |-> "InvalidAccessToken"]

\* the message of the error thrown by UsersRef.doc(undefined)
INVALID_DOCUMENT_PATH == "InvalidDocumentPath"

\* process.env.JWT_SECRET_KEY
JWT_SECRET_KEY == "JWT_SECRET_KEY"

\* expiresIn: 6000, a number, which jsonwebtoken reads as seconds
TokenLifetime == 6000

\* maxAge: "100000000", which res.cookie reads as milliseconds
CookieMaxAge == 100000000

\* Math.floor(ms / 1000): the clock jsonwebtoken stamps and compares with
Seconds(ms) == ms \div 1000

\* an absent cookie or body field that would hold a token
NoJwt == [userId |-> "", isAccessToken |-> FALSE, iat |-> 0, exp |-> 0,
          key |-> "", at |-> 0]

\* jwt.sign(payload, key, {expiresIn}) at time t (ms); `at` is a ghost field
jwtSign(userId, isAccessToken, key, expiresIn, t) ==
  [userId |-> userId, isAccessToken |-> isAccessToken, iat |-> Seconds(t),
   exp |-> Seconds(t) + expiresIn, key |-> key, at |-> t]

\* jwt.verify(token, JWT_SECRET_KEY) at time t does not throw
jwtVerify(token, t) ==
  /\ token # NoJwt
  /\ token.key = JWT_SECRET_KEY
  /\ ~(Seconds(t) >= token.exp)

\* the bearer tokens of the model and what the identity provider says of
\* them; a rejected token gives a falsy uid
IdTokens == {"tokU1", "tokU1unverified", "tokU2", "garbage"}

ValidateIDToken(token) ==
  CASE token = "tokU1" -> [uid |-> "u1", email_verified |-> TRUE]
    [] token = "tokU1unverified" -> [uid |-> "u1", email_verified |-> FALSE]
    [] token = "tokU2" -> [uid |-> "u2", email_verified |-> TRUE]
    [] OTHER -> [uid |-> "", email_verified |-> FALSE]

\* the Authorization header, split at " "; <<>> is no header
Headers == {<<>>, <<"Basic", "x">>} \cup { <<"Bearer", t>> : t \in IdTokens }

PhoneNumbers == {"+15550001", "+15550002"}

\* validator.isMobilePhone
isMobilePhone(v) == v \in PhoneNumbers

\* ------------------------------------------------------------------------
\* Gateway: the validation chains of the routes
\* ------------------------------------------------------------------------
BaseAuthorizationHeaderValidator(custom) == [kind |-> "header", name |-> custom]
BodyField(field) == [kind |-> "body", name |-> field]
ParamField(field) == [kind |-> "param", name |-> field]
ForeignCheck == [kind |-> "foreign", name |-> "foreign"]

CheckPhoneNumberChangeValidator ==
  << BaseAuthorizationHeaderValidator("VerifyFirebaseToken"),
     BaseAuthorizationHeaderValidator("VerifyAccessToken") >>

StoreAccessTokenValidator ==
  << BaseAuthorizationHeaderValidator("VerifyFirebaseToken"),
     BodyField("successJWT") >>

UpdatePhoneNumberValidator ==
  << BaseAuthorizationHeaderValidator("VerifyFirebaseToken"),
     BaseAuthorizationHeaderValidator("VerifyUpdatePhoneNumber"),
     ParamField("phoneNumber") >>

\* the chain with the access token check ahead of the identity check
UpdateFieldValidator_AccessTokenFirst ==
  << BaseAuthorizationHeaderValidator("VerifyAccessToken"),
     BaseAuthorizationHeaderValidator("VerifyFirebaseToken"),
     BodyField("field"),
     BodyField("info") >>

UpdateFieldValidator ==
  << BaseAuthorizationHeaderValidator("VerifyFirebaseToken"),
     BaseAuthorizationHeaderValidator("VerifyAccessToken"),
     BodyField("field"),
     BodyField("info") >>

SetFCMTokenValidator ==
  << BaseAuthorizationHeaderValidator("VerifyFirebaseToken"),
     BaseAuthorizationHeaderValidator("VerifyAccessToken"),
     BodyField("FCMToken") >>

DeleteValidator ==
  << BaseAuthorizationHeaderValidator("VerifyFirebaseToken"),
     BaseAuthorizationHeaderValidator("VerifyAccessToken") >>

UserBasicLoginValidator ==
  << BaseAuthorizationHeaderValidator("VerifyFirebaseTokenOnlyUID") >>

GetAvailableAuthMethodsValidator ==
  << BodyField("encData"), BodyField("hash"), BodyField("organizationId"),
     BodyField("time") >>

\* the chains userMiddleware.js builds
ValidatorChains ==
  { CheckPhoneNumberChangeValidator, StoreAccessTokenValidator,
    UpdatePhoneNumberValidator, SetFCMTokenValidator, UpdateFieldValidator,
    DeleteValidator, UserBasicLoginValidator, GetAvailableAuthMethodsValidator }

\* the chain of a route of another router that ends in AuthValidate
ForeignValidator == << ForeignCheck >>

Routes == {"checkPhoneNumberChange", "storeAccessToken", "updatePhone",
           "updateField", "deviceRoute"}

Validators(route) ==
  CASE route = "checkPhoneNumberChange" -> CheckPhoneNumberChangeValidator
    [] route = "storeAccessToken" -> StoreAccessTokenValidator
    [] route = "updatePhone" -> UpdatePhoneNumberValidator
    [] route = "updateField" -> UpdateFieldValidator
    [] route = "basicInfo" -> UserBasicLoginValidator
    [] route = "getAvailableAuthMethods" -> GetAvailableAuthMethodsValidator
    [] OTHER -> ForeignValidator

\* ------------------------------------------------------------------------
\* Gateway: requests
\* ------------------------------------------------------------------------
NoReq ==
  [route |-> "", authorization |-> <<>>, userId |-> "", phoneNumber |-> "",
   param |-> "", accessToken |-> NoJwt, successJWT |-> NoJwt, field |-> "",
   info |-> "", foreign |-> "", encData |-> "", hash |-> "",
   organizationId |-> "", time |-> ""]

\* the encData of a request of an organization: the encrypted userId of
\* one of the users, or something that does not decrypt
EncData == {"", "garbled", "encU1", "encU2"}

\* userId values a client may put into the body itself
BodyUserIds == {"", "u2"}

\* a token signed with another key
ForgedJwt(t) == jwtSign("u1", TRUE, "forged", TokenLifetime, t)

\* tokens of a second-factor flow: signed, without the isAccessToken
\* marker, expired or not at time t
SuccessJWTs(t) ==
  { jwtSign(u, FALSE, JWT_SECRET_KEY, 1, t) : u \in Users } \cup
  { jwtSign("u1", FALSE, JWT_SECRET_KEY, 0, t) }

\* what a client may send as accessToken cookie at time t
Cookies(t) ==
  {NoJwt, ForgedJwt(t), jwtSign("u1", FALSE, JWT_SECRET_KEY, 1, t)} \cup issued

\* what a client may send as successJWT at time t
SuccessInputs(t) == {NoJwt, ForgedJwt(t)} \cup SuccessJWTs(t) \cup issued

RequestsOf(route, t) ==
  CASE route = "checkPhoneNumberChange" ->
         { [NoReq EXCEPT !.route = route, !.authorization = h, !.userId = u,
                         !.accessToken = c, !.param = "+15550001"] :
             h \in Headers, u \in BodyUserIds, c \in Cookies(t) }
    [] route = "storeAccessToken" ->
         { [NoReq EXCEPT !.route = route, !.authorization = h, !.userId = u,
                         !.successJWT = j] :
             h \in Headers, u \in BodyUserIds, j \in SuccessInputs(t) }
    [] route = "updatePhone" ->
         { [NoReq EXCEPT !.route = route, !.authorization = h, !.userId = u,
                         !.accessToken = c, !.phoneNumber = b, !.param = q] :
             h \in Headers, u \in BodyUserIds, c \in Cookies(t),
             b \in {"", "+15550002"}, q \in {"+15550002", "abc"} }
    [] route = "updateField" ->
         { [NoReq EXCEPT !.route = route, !.authorization = h, !.userId = u,
                         !.accessToken = c, !.field = f[1], !.info = f[2]] :
             h \in Headers, u \in BodyUserIds, c \in Cookies(t),
             f \in {<<"", "x">>, <<"name", "">>, <<"name", "x">>} }
    [] route = "basicInfo" ->
         { [NoReq EXCEPT !.route = route, !.authorization = h, !.userId = u,
                         !.accessToken = c] :
             h \in Headers, u \in BodyUserIds, c \in Cookies(t) }
    [] route = "getAvailableAuthMethods" ->
         { [NoReq EXCEPT !.route = route, !.encData = e, !.hash = "h",
                         !.organizationId = o, !.time = m] :
             e \in EncData, o \in {"", "org"}, m \in {"", "1"} }
    [] OTHER ->
         { [NoReq EXCEPT !.route = route, !.foreign = e] :
             e \in {"", ERROR_CODES.DEVICE_EXISTS,
                    ERROR_CODES.PHONE_NUMBER_NOT_VERIFIED} }

\* ------------------------------------------------------------------------
\* Gateway: the account and device stores
\* ------------------------------------------------------------------------
NoAccount == [exists |-> FALSE, phoneNumber |-> "", phoneVerified |-> FALSE,
              name |-> ""]

Account(phoneVerified) ==
  [exists |-> TRUE, phoneNumber |-> "+15550001", phoneVerified |-> phoneVerified,
   name |-> "n"]

NoDevices == [mobile |-> 0, desktop |-> 0]

\* DevicesDb.read.getAllDevices(userId).length
getAllDevicesLength(userId) == Devices[userId].mobile + Devices[userId].desktop

\* DevicesDb.read.getAllMobileDevices(userId).length
getAllMobileDevicesLength(userId) == Devices[userId].mobile

\* the populations of the capability routes: every combination of the
\* phoneVerified flag, zero to two mobile devices and zero or one desktop
CapPopulations ==
  { <<NoAccount, NoDevices>> } \cup
  { <<Account(v), [mobile |-> m, desktop |-> k]>> :
      v \in BOOLEAN, m \in 0..2, k \in 0..1 }

\* the populations a request may find for u1
Populations ==
  { <<NoAccount, NoDevices>> } \cup
  { <<Account(v), NoDevices>> : v \in BOOLEAN } \cup
  { <<Account(FALSE), [mobile |-> 1, desktop |-> 1]>> }

NoVup == [phoneVerified |-> FALSE, total |-> 0]

\* what a handler holds before its first read
NoLocals == [phoneVerified |-> FALSE, total |-> 0]

\* no access token has been issued yet
NoSessions ==
  /\ issued = {}
  /\ cookieJar = {}

GateIdle ==
  /\ requests = 0
  /\ gpc = "idle"
  /\ req = NoReq
  /\ idx = 0
  /\ errors = <<>>
  /\ ran = <<>>
  /\ vup = NoVup
  /\ responses = <<>>
  /\ handlerCalls = 0
  /\ caps = <<>>
  /\ locals = NoLocals
  /\ hasAccess = <<>>
  /\ softNext = 0
  /\ seen = {}

GateInit ==
  /\ \E c \in Populations :
       /\ Accounts = [u \in Users |-> IF u = "u1" THEN c[1] ELSE Account(TRUE)]
       /\ Devices = [u \in Users |-> IF u = "u1" THEN c[2] ELSE NoDevices]
  /\ NoSessions
  /\ GateIdle

\* ------------------------------------------------------------------------
\* Gateway: a request arrives
\* ------------------------------------------------------------------------
Arrive(sent) ==
  /\ gpc = "idle"
  /\ requests < MaxRequests
  /\ requests' = requests + 1
  /\ req' \in sent
  /\ idx' = 1
  /\ errors' = <<>>
  /\ ran' = <<>>
  /\ vup' = NoVup
  /\ responses' = <<>>
  /\ handlerCalls' = 0
  /\ gpc' = "chain"
  /\ UNCHANGED <<clockVars, storeVars, capVars, Accounts, Devices, issued>>

NewRequest == Arrive(UNION { RequestsOf(route, now) : route \in Routes })

\* ------------------------------------------------------------------------
\* Gateway: the validation chains, run by express one after the other.
\* Every chain is a middleware of its own: it runs its validators, records
\* its errors in the request and calls next() whether or not it failed.
\* ------------------------------------------------------------------------
Check == Validators(req.route)[idx]

InChain(kind, name) ==
  /\ gpc = "chain"
  /\ Check.kind = kind
  /\ name # "" => Check.name = name

\* the chain at idx is over: express moves on to the next middleware
Advance ==
  /\ idx' = idx + 1
  /\ gpc' = IF idx = Len(Validators(req.route)) THEN "validate" ELSE "chain"

Err(code, param) == [idx |-> idx, code |-> code, param |-> param]

Ran(name, ok, userId, available) ==
  [name |-> name, idx |-> idx, errsBefore |-> Len(errors), ok |-> ok,
   userId |-> userId, t |-> now, available |-> available]

\* BaseAuthorizationHeaderValidator: the header exists and is a bearer
\* header, or the chain bails out before its custom validator
HeaderError(h) ==
  IF h = <<>> THEN ERROR_CODES.MISSING_HEADER
  ELSE IF h[1] # "Bearer" THEN ERROR_CODES.MISSING_BEARER
  ELSE ""

HeaderChainFails ==
  /\ InChain("header", "")
  /\ HeaderError(req.authorization) # ""
  /\ errors' = Append(errors, Err(HeaderError(req.authorization), ""))
  /\ Advance
  /\ UNCHANGED <<clockVars, storeVars, capVars, Accounts, Devices, issued, requests,
                 req, ran, vup, responses, handlerCalls>>

\* the check that writes the userId it is given whatever the provider says
VerifyFirebaseTokenOnlyUID_AlwaysWrites(value) ==
  LET token == value[2]
      r == ValidateIDToken(token)
  IN  [ok |-> ~(r.uid = ""), uid |-> r.uid, writes |-> TRUE]

\* lines 16-26
VerifyFirebaseTokenOnlyUID(value) ==
  LET token == value[2]
      r == ValidateIDToken(token)
  IN  [ok |-> ~(r.uid = ""), uid |-> r.uid, writes |-> ~(r.uid = "")]

RunVerifyFirebaseTokenOnlyUID ==
  /\ InChain("header", "VerifyFirebaseTokenOnlyUID")
  /\ HeaderError(req.authorization) = ""
  /\ LET v == VerifyFirebaseTokenOnlyUID(req.authorization) IN
       /\ ran' = Append(ran, Ran("VerifyFirebaseTokenOnlyUID", v.ok, v.uid, FALSE))
       /\ req' = IF v.writes THEN [req EXCEPT !.userId = v.uid] ELSE req
       /\ errors' = IF v.ok THEN errors
                    ELSE Append(errors, Err(ERROR_CODES.INVALID_FIREBASE_TOKEN, ""))
  /\ Advance
  /\ UNCHANGED <<clockVars, storeVars, capVars, Accounts, Devices, issued, requests,
                 vup, responses, handlerCalls>>

\* the check without the email_verified test of line 38
VerifyFirebaseToken_AnyEmail(value) ==
  LET token == value[2]
      r == ValidateIDToken(token)
  IN  [ok |-> ~(r.uid = ""), uid |-> r.uid]

\* lines 33-44
VerifyFirebaseToken(value) ==
  LET token == value[2]
      r == ValidateIDToken(token)
  IN  [ok |-> ~(r.uid = "" \/ ~r.email_verified), uid |-> r.uid]

\* the step of the check that leaves the userId of the body as the client
\* has sent it
RunVerifyFirebaseToken_KeepsBody ==
  /\ InChain("header", "VerifyFirebaseToken")
  /\ HeaderError(req.authorization) = ""
  /\ LET v == VerifyFirebaseToken(req.authorization) IN
       /\ ran' = Append(ran, Ran("VerifyFirebaseToken", v.ok, v.uid, FALSE))
       /\ errors' = IF v.ok THEN errors
                    ELSE Append(errors, Err(ERROR_CODES.INVALID_FIREBASE_TOKEN, ""))
       /\ UNCHANGED req
  /\ Advance
  /\ UNCHANGED <<clockVars, storeVars, capVars, Accounts, Devices, issued, requests,
                 vup, responses, handlerCalls>>

\* lines 33-44 as a step of the chain
RunVerifyFirebaseToken ==
  /\ InChain("header", "VerifyFirebaseToken")
  /\ HeaderError(req.authorization) = ""
  /\ LET v == VerifyFirebaseToken(req.authorization) IN
       /\ ran' = Append(ran, Ran("VerifyFirebaseToken", v.ok, v.uid, FALSE))
       /\ IF v.ok
            THEN /\ req' = [req EXCEPT !.userId = v.uid]
                 /\ UNCHANGED errors
            ELSE /\ errors' = Append(errors, Err(ERROR_CODES.INVALID_FIREBASE_TOKEN, ""))
                 /\ UNCHANGED req
  /\ Advance
  /\ UNCHANGED <<clockVars, storeVars, capVars, Accounts, Devices, issued, requests,
                 vup, responses, handlerCalls>>

\* the token check without the isAccessToken test of line 57
VerifyAccessToken_NoMarker(accessToken, userId, t) ==
  /\ jwtVerify(accessToken, t)
  /\ ~(accessToken.userId # userId)

\* lines 49-66: TRUE when the validator returns true, FALSE when it throws
\* INVALID_ACCESS_TOKEN
VerifyAccessToken(accessToken, userId, t) ==
  /\ jwtVerify(accessToken, t)
  /\ ~(accessToken.userId # userId \/ ~accessToken.isAccessToken)

RunVerifyAccessToken ==
  /\ InChain("header", "VerifyAccessToken")
  /\ HeaderError(req.authorization) = ""
  /\ LET ok == VerifyAccessToken(req.accessToken, req.userId, now) IN
       /\ ran' = Append(ran, Ran("VerifyAccessToken", ok, req.userId, FALSE))
       /\ errors' = IF ok THEN errors
                    ELSE Append(errors, Err(ERROR_CODES.INVALID_ACCESS_TOKEN, ""))
  /\ Advance
  /\ UNCHANGED <<clockVars, storeVars, capVars, Accounts, Devices, issued, requests,
                 req, vup, responses, handlerCalls>>

\* lines 71-76: the account is read; UsersRef.doc(undefined) throws
VerifyUpdatePhoneNumberRead ==
  /\ InChain("header", "VerifyUpdatePhoneNumber")
  /\ HeaderError(req.authorization) = ""
  /\ IF req.userId = ""
       THEN /\ ran' = Append(ran, Ran("VerifyUpdatePhoneNumber", FALSE, req.userId, FALSE))
            /\ errors' = Append(errors, Err(INVALID_DOCUMENT_PATH, ""))
            /\ Advance
            /\ UNCHANGED vup
       ELSE /\ vup' = [phoneVerified |-> Accounts[req.userId].exists
                                          /\ Accounts[req.userId].phoneVerified,
                       total |-> 0]
            /\ gpc' = "totalDeviceCount"
            /\ UNCHANGED <<ran, errors, idx>>
  /\ UNCHANGED <<clockVars, storeVars, capVars, Accounts, Devices, issued, requests,
                 req, responses, handlerCalls>>

\* line 81
VerifyUpdatePhoneNumberCount ==
  /\ gpc = "totalDeviceCount"
  /\ vup' = [vup EXCEPT !.total = getAllDevicesLength(req.userId)]
  /\ seen' = { Devices[req.userId] }
  /\ gpc' = "mobileDeviceCount"
  /\ UNCHANGED <<clockVars, storeVars, caps, locals, hasAccess, softNext, cookieJar,
                 Accounts, Devices, issued, requests, req, idx, errors, ran,
                 responses, handlerCalls>>

\* ghost: a capability set computed at a call site, with the counts it was
\* computed from and the phoneVerified flag of the account at that time
Cap(site, userId, mobileDeviceCount, desktopDeviceCount, methods) ==
  [site |-> site, userId |-> userId,
   phoneVerified |-> Accounts[userId].exists /\ Accounts[userId].phoneVerified,
   mobile |-> mobileDeviceCount, desktop |-> desktopDeviceCount,
   methods |-> methods]

\* lines 78-88: the capability set of the account
availableMethods(phoneVerified, mobileDeviceCount, desktopDeviceCount) ==
  [SMS |-> phoneVerified,
   QR |-> mobileDeviceCount > 0,
   SSID |-> desktopDeviceCount > 0 /\ mobileDeviceCount > 0,
   Geolocation |-> mobileDeviceCount > 0]

AnyMethod(m) == m.SMS \/ m.QR \/ m.SSID \/ m.Geolocation

\* lines 82-96: the second count is read and the check decides
VerifyUpdatePhoneNumberDecide ==
  /\ gpc = "mobileDeviceCount"
  /\ LET mobileDeviceCount == getAllMobileDevicesLength(req.userId)
         desktopDeviceCount == vup.total - mobileDeviceCount
         m == availableMethods(vup.phoneVerified, mobileDeviceCount, desktopDeviceCount)
         delegates == AnyMethod(m) /\ req.phoneNumber # ""
         ok == delegates => VerifyAccessToken(req.accessToken, req.userId, now)
     IN
       /\ ran' = ran
            \o << Ran("VerifyUpdatePhoneNumber", ok, req.userId, AnyMethod(m)) >>
            \o (IF delegates
                  THEN << Ran("VerifyAccessToken", ok, req.userId, FALSE) >>
                  ELSE << >>)
       /\ errors' = IF ok THEN errors
                    ELSE Append(errors, Err(ERROR_CODES.INVALID_ACCESS_TOKEN, ""))
       /\ caps' = Append(caps,
            Cap("VerifyUpdatePhoneNumber", req.userId, mobileDeviceCount,
                desktopDeviceCount, m))
  /\ Advance
  /\ UNCHANGED <<clockVars, storeVars, locals, hasAccess, softNext, cookieJar, seen,
                 Accounts, Devices, issued, requests, req, vup, responses,
                 handlerCalls>>

\* body(field).isLength({min: 1}).trim().withMessage(MISSING_PARAMATER field)
BodyValuePresent(field) ==
  CASE field = "successJWT" -> req.successJWT # NoJwt
    [] field = "field" -> req.field # ""
    [] field = "encData" -> req.encData # ""
    [] field = "hash" -> req.hash # ""
    [] field = "organizationId" -> req.organizationId # ""
    [] field = "time" -> req.time # ""
    [] OTHER -> req.info # ""

RunBodyField ==
  /\ InChain("body", "")
  /\ errors' = IF BodyValuePresent(Check.name) THEN errors
               ELSE Append(errors, Err(ERROR_CODES.MISSING_PARAMATER, Check.name))
  /\ Advance
  /\ UNCHANGED <<clockVars, storeVars, capVars, Accounts, Devices, issued, requests,
                 req, ran, vup, responses, handlerCalls>>

\* param("phoneNumber").isLength({min: 1}).trim().isMobilePhone().withMessage(..)
RunParamField ==
  /\ InChain("param", "")
  /\ errors' = IF isMobilePhone(req.param) THEN errors
               ELSE Append(errors, Err(ERROR_CODES.MISSING_PARAMATER, Check.name))
  /\ Advance
  /\ UNCHANGED <<clockVars, storeVars, capVars, Accounts, Devices, issued, requests,
                 req, ran, vup, responses, handlerCalls>>

\* a check of another router: it fails with the code the request meets
RunForeignCheck ==
  /\ InChain("foreign", "")
  /\ errors' = IF req.foreign = "" THEN errors
               ELSE Append(errors, Err(req.foreign, ""))
  /\ Advance
  /\ UNCHANGED <<clockVars, storeVars, capVars, Accounts, Devices, issued, requests,
                 req, ran, vup, responses, handlerCalls>>

\* ------------------------------------------------------------------------
\* AuthValidate (lines 108-163)
\* ------------------------------------------------------------------------
Response(status, code, param, by) ==
  [status |-> status, code |-> code, param |-> param, by |-> by]

\* the status of each case of the switch that writes a response
StatusOf(errorCode) ==
  CASE errorCode = ERROR_CODES.MISSING_HEADER -> 403
    [] errorCode = ERROR_CODES.MISSING_BEARER -> 403
    [] errorCode = ERROR_CODES.INVALID_FIREBASE_TOKEN -> 400
    [] errorCode = ERROR_CODES.PHONE_NUMBER_NOT_VERIFIED -> 409
    [] errorCode = ERROR_CODES.MISSING_PARAMATER -> 412
    [] errorCode = ERROR_CODES.INVALID_ACCESS_TOKEN -> 417
    [] OTHER -> 400

\* errors.array() of a validationResult whose first error is the last one
\* collected
FirstError_Last(errs) == errs[Len(errs)]

\* errors.array()[0]
FirstError(errs) == errs[1]

\* lines 111-113
AuthValidateNext ==
  /\ gpc = "validate"
  /\ errors = <<>>
  /\ handlerCalls' = IF req.route = "basicInfo" THEN handlerCalls
                      ELSE handlerCalls + 1
  /\ gpc' = IF req.route = "basicInfo" THEN "middleware" ELSE "handler"
  /\ UNCHANGED <<clockVars, storeVars, capVars, Accounts, Devices, issued, requests,
                 req, idx, errors, ran, vup, responses>>

\* lines 115-162, every case but DEVICE_EXISTS
AuthValidateFail ==
  /\ gpc = "validate"
  /\ errors # <<>>
  /\ LET errorCode == FirstError(errors).code
         param == FirstError(errors).param
     IN
       /\ errorCode # ERROR_CODES.DEVICE_EXISTS
       /\ responses' = Append(responses,
            Response(StatusOf(errorCode), errorCode,
                     IF errorCode = ERROR_CODES.MISSING_PARAMATER THEN param ELSE "",
                     "AuthValidate"))
  /\ gpc' = "done"
  /\ UNCHANGED <<clockVars, storeVars, capVars, Accounts, Devices, issued, requests,
                 req, idx, errors, ran, vup, handlerCalls>>

\* lines 136-140: res.staus is not a function, the async middleware
\* rejects. Express 4 drops the rejection and the request is never
\* answered.
AuthValidateThrowsUnhandled ==
  /\ gpc = "validate"
  /\ errors # <<>>
  /\ FirstError(errors).code = ERROR_CODES.DEVICE_EXISTS
  /\ gpc' = "hung"
  /\ UNCHANGED <<clockVars, storeVars, capVars, Accounts, Devices, issued, requests,
                 req, idx, errors, ran, vup, responses, handlerCalls>>

\* the same under Express 5, which passes the rejection to its error
\* handler: that one answers 500
AuthValidateThrowsHandled ==
  /\ gpc = "validate"
  /\ errors # <<>>
  /\ FirstError(errors).code = ERROR_CODES.DEVICE_EXISTS
  /\ responses' = Append(responses, Response(500, "TypeError", "", "express"))
  /\ gpc' = "done"
  /\ UNCHANGED <<clockVars, storeVars, capVars, Accounts, Devices, issued, requests,
                 req, idx, errors, ran, vup, handlerCalls>>

\* ------------------------------------------------------------------------
\* Route handlers
\* ------------------------------------------------------------------------
InHandler(route) == gpc = "handler" /\ req.route = route

\* GET /checkPhoneNumberChange/:phoneNumber (userRoutes.js 119-132) with
\* GetUserFromUID (user.js 77-90)
HandlerCheckPhoneNumberChange ==
  /\ InHandler("checkPhoneNumberChange")
  /\ responses' = Append(responses,
       IF req.param = ""
         THEN Response(500, "Phone number not provided.", "", "handler")
         ELSE IF ~Accounts[req.userId].exists
           THEN Response(401, "User could not be retrieved from User ID", "", "handler")
           ELSE Response(200, "", "", "handler"))
  /\ gpc' = "done"
  /\ UNCHANGED <<clockVars, storeVars, capVars, Accounts, Devices, issued, requests,
                 req, idx, errors, ran, vup, handlerCalls>>

\* the same signing with the lifetime given as the string "6000", which
\* jsonwebtoken reads as milliseconds
signAccessToken_Milliseconds(userId, t) ==
  jwtSign(userId, TRUE, JWT_SECRET_KEY, TokenLifetime \div 1000, t)

\* jwt.sign({userId, isAccessToken: true}, key, {expiresIn: 6000}) at time t
signAccessToken(userId, t) ==
  jwtSign(userId, TRUE, JWT_SECRET_KEY, TokenLifetime, t)

\* res.cookie("accessToken", token, {..., maxAge: "100000000"}) at time t:
\* express turns maxAge into a number of ms and sends Max-Age in seconds
accessTokenCookie(token, t) ==
  [token |-> token, maxAge |-> CookieMaxAge \div 1000, at |-> t]

\* the handler without the comparison of line 174
HandlerStoreAccessToken_NoSubjectCheck ==
  /\ InHandler("storeAccessToken")
  /\ IF ~jwtVerify(req.successJWT, now)
       THEN /\ responses' = Append(responses,
                  Response(406, "Success JWT Invalid.", "", "handler"))
            /\ UNCHANGED <<issued, cookieJar>>
       ELSE /\ issued' = issued \cup
                  { signAccessToken(req.successJWT.userId, now) }
            /\ cookieJar' = cookieJar \cup
                  { accessTokenCookie(signAccessToken(req.successJWT.userId, now), now) }
            /\ responses' = Append(responses, Response(200, "", "", "handler"))
  /\ gpc' = "done"
  /\ UNCHANGED <<clockVars, storeVars, caps, locals, hasAccess, softNext, seen,
                 Accounts, Devices, requests, req, idx, errors, ran, vup,
                 handlerCalls>>

\* POST /storeAccessToken (userRoutes.js 163-207)
HandlerStoreAccessToken ==
  /\ InHandler("storeAccessToken")
  /\ IF ~jwtVerify(req.successJWT, now)
       THEN /\ responses' = Append(responses,
                  Response(406, "Success JWT Invalid.", "", "handler"))
            /\ UNCHANGED <<issued, cookieJar>>
       ELSE IF req.successJWT.userId # req.userId
         THEN /\ responses' = Append(responses,
                    Response(401, "Users do not match.", "", "handler"))
              /\ UNCHANGED <<issued, cookieJar>>
         ELSE /\ issued' = issued \cup
                    { signAccessToken(req.successJWT.userId, now) }
              /\ cookieJar' = cookieJar \cup
                    { accessTokenCookie(signAccessToken(req.successJWT.userId, now), now) }
              /\ responses' = Append(responses, Response(200, "", "", "handler"))
  /\ gpc' = "done"
  /\ UNCHANGED <<clockVars, storeVars, caps, locals, hasAccess, softNext, seen,
                 Accounts, Devices, requests, req, idx, errors, ran, vup,
                 handlerCalls>>

\* POST /updateField (userRoutes.js 214-228) with updateField (user.js
\* 230-240): the update of a missing document rejects with an error that
\* has no status, res.status(undefined).json() throws inside the catch
\* callback and nothing is answered
HandlerUpdateField ==
  /\ InHandler("updateField")
  /\ IF Accounts[req.userId].exists
       THEN /\ Accounts' = [Accounts EXCEPT ![req.userId].name = req.info]
            /\ responses' = Append(responses, Response(200, "", "", "handler"))
            /\ gpc' = "done"
       ELSE /\ gpc' = "hung"
            /\ UNCHANGED <<Accounts, responses>>
  /\ UNCHANGED <<clockVars, storeVars, capVars, Devices, issued, requests, req, idx,
                 errors, ran, vup, handlerCalls>>

\* POST /updatePhone/:phoneNumber (userRoutes.js 233-239) with
\* updatePhoneNumber (user.js 190-201), the update succeeds
HandlerUpdatePhone ==
  /\ InHandler("updatePhone")
  /\ Accounts[req.userId].exists
  /\ Accounts' = [Accounts EXCEPT ![req.userId].phoneNumber = req.param,
                                  ![req.userId].phoneVerified = FALSE]
  /\ responses' = Append(responses, Response(200, "", "", "handler"))
  /\ gpc' = "done"
  /\ UNCHANGED <<clockVars, storeVars, capVars, Devices, issued, requests, req, idx,
                 errors, ran, vup, handlerCalls>>

\* the update rejects without a status: res.status(undefined).json()
\* throws inside the catch callback and the async handler rejects.
\* Express 4 drops the rejection.
HandlerUpdatePhoneThrowsUnhandled ==
  /\ InHandler("updatePhone")
  /\ ~Accounts[req.userId].exists
  /\ gpc' = "hung"
  /\ UNCHANGED <<clockVars, storeVars, capVars, Accounts, Devices, issued, requests,
                 req, idx, errors, ran, vup, responses, handlerCalls>>

\* the same under Express 5: its error handler answers 500
HandlerUpdatePhoneThrowsHandled ==
  /\ InHandler("updatePhone")
  /\ ~Accounts[req.userId].exists
  /\ responses' = Append(responses, Response(500, "RangeError", "", "express"))
  /\ gpc' = "done"
  /\ UNCHANGED <<clockVars, storeVars, capVars, Accounts, Devices, issued, requests,
                 req, idx, errors, ran, vup, handlerCalls>>

\* the handler of the other router answers
HandlerForeign ==
  /\ InHandler("deviceRoute")
  /\ responses' = Append(responses, Response(200, "", "", "handler"))
  /\ gpc' = "done"
  /\ UNCHANGED <<clockVars, storeVars, capVars, Accounts, Devices, issued, requests,
                 req, idx, errors, ran, vup, handlerCalls>>

\* the request is over (answered, or abandoned by the client)
EndRequest ==
  /\ gpc \in {"done", "hung"}
  /\ gpc' = "idle"
  /\ req' = NoReq
  /\ idx' = 0
  /\ errors' = <<>>
  /\ ran' = <<>>
  /\ vup' = NoVup
  /\ responses' = <<>>
  /\ handlerCalls' = 0
  /\ caps' = <<>>
  /\ locals' = NoLocals
  /\ hasAccess' = <<>>
  /\ softNext' = 0
  /\ seen' = {}
  /\ UNCHANGED <<clockVars, storeVars, cookieJar, Accounts, Devices, issued, requests>>

\* ------------------------------------------------------------------------
\* Operations of the gateway
\* ------------------------------------------------------------------------
\* elapsed time between two steps of the gateway, in ms: half a second, and
\* what is left of the lifetime of a token after it
GateTickSteps == {500, TokenLifetime * 1000 - 500}

GateNext ==
  \/ \E d \in GateTickSteps : Tick(d)
  \/ NewRequest
  \/ HeaderChainFails
  \/ RunVerifyFirebaseToken
  \/ RunVerifyAccessToken
  \/ VerifyUpdatePhoneNumberRead
  \/ VerifyUpdatePhoneNumberCount
  \/ VerifyUpdatePhoneNumberDecide
  \/ RunBodyField
  \/ RunParamField
  \/ RunForeignCheck
  \/ AuthValidateNext
  \/ AuthValidateFail
  \/ AuthValidateThrowsUnhandled
  \/ AuthValidateThrowsHandled
  \/ HandlerCheckPhoneNumberChange
  \/ HandlerStoreAccessToken
  \/ HandlerUpdateField
  \/ HandlerUpdatePhone
  \/ HandlerUpdatePhoneThrowsUnhandled
  \/ HandlerUpdatePhoneThrowsHandled
  \/ HandlerForeign
  \/ EndRequest

\* ------------------------------------------------------------------------
\* Specifications
\* ------------------------------------------------------------------------
\* the exchange store, with no request at the gateway
Init ==
  /\ StoreInit
  /\ Accounts = [u \in Users |-> Account(TRUE)]
  /\ Devices = [u \in Users |-> NoDevices]
  /\ NoSessions
  /\ GateIdle

Next == StoreNext

Spec == Init /\ [][Next]_vars

\* the gateway, with no operation on the exchange store
GateSpecInit == StoreInit /\ GateInit

GateSpec == GateSpecInit /\ [][GateNext]_vars

TypeOK ==
  /\ now \in Nat
  /\ \A h \in HashIds : UsersHash[h].exists \in BOOLEAN
  /\ gpc \in {"idle", "chain", "totalDeviceCount", "mobileDeviceCount",
              "validate", "middleware", "handler", "handlerTotal",
              "handlerMobile", "done", "hung"}
  /\ hasAccess \in {<<>>, <<TRUE>>, <<FALSE>>}
  /\ softNext \in 0..1
  /\ seen \subseteq { c[2] : c \in CapPopulations }


\* ------------------------------------------------------------------------
\* The capability routes
\* ------------------------------------------------------------------------
\* the middleware that sets hasAccess without the subject comparison
CheckAccessToken_AnySubject(accessToken, userId, t) ==
  IF jwtVerify(accessToken, t)
    THEN ~(~accessToken.isAccessToken)
    ELSE FALSE

\* userMiddleware.js 168-186: the value req.body.hasAccess ends with
CheckAccessToken(accessToken, userId, t) ==
  IF jwtVerify(accessToken, t)
    THEN ~(accessToken.userId # userId \/ ~accessToken.isAccessToken)
    ELSE FALSE

CheckAccessTokenMiddleware ==
  /\ gpc = "middleware"
  /\ hasAccess' = << CheckAccessToken(req.accessToken, req.userId, now) >>
  /\ softNext' = softNext + 1
  /\ handlerCalls' = handlerCalls + 1
  /\ gpc' = "handler"
  /\ UNCHANGED <<clockVars, storeVars, caps, locals, cookieJar, seen, Accounts,
                 Devices, issued, requests, req, idx, errors, ran, vup,
                 responses>>

\* a capability set with the keys its call site gives it
WithSmart(methods) == methods @@ [Smart |-> TRUE]

\* userRoutes.js 41-55
basicInfoMethods(phoneVerified, mobileDeviceCount, desktopDeviceCount) ==
  LET m == [SMS |-> phoneVerified,
            QR |-> mobileDeviceCount > 0,
            SSID |-> desktopDeviceCount > 0 /\ mobileDeviceCount > 0,
            Geolocation |-> desktopDeviceCount > 0 /\ mobileDeviceCount > 0]
  IN  IF m.SSID THEN WithSmart(m) ELSE m

\* the same without the else branch of line 296
getAvailableAuthMethods_NoElse(mobileDeviceCount, desktopDeviceCount) ==
  IF desktopDeviceCount > 0 /\ mobileDeviceCount > 0
    THEN [SMS |-> TRUE, QR |-> TRUE, SSID |-> TRUE]
    ELSE [SMS |-> TRUE, QR |-> FALSE, SSID |-> FALSE]

\* userRoutes.js 281-299
getAvailableAuthMethods(mobileDeviceCount, desktopDeviceCount) ==
  IF desktopDeviceCount > 0 /\ mobileDeviceCount > 0
    THEN [SMS |-> TRUE, QR |-> TRUE, SSID |-> TRUE]
    ELSE IF mobileDeviceCount > 0
      THEN [SMS |-> TRUE, QR |-> TRUE, SSID |-> FALSE]
      ELSE [SMS |-> TRUE, QR |-> FALSE, SSID |-> FALSE]

\* GET /basicInfo (userRoutes.js 31-36) with GetUserFromUID (user.js 77-90)
HandlerBasicInfoRead ==
  /\ InHandler("basicInfo")
  /\ IF ~Accounts[req.userId].exists
       THEN /\ responses' = Append(responses,
                 Response(401, "User could not be retrieved from User ID", "", "handler"))
            /\ gpc' = "done"
            /\ UNCHANGED locals
       ELSE /\ locals' = [phoneVerified |-> Accounts[req.userId].phoneVerified,
                          total |-> 0]
            /\ gpc' = "handlerTotal"
            /\ UNCHANGED responses
  /\ UNCHANGED <<clockVars, storeVars, caps, hasAccess, softNext, cookieJar,
                 seen, Accounts, Devices, issued, requests, req, idx, errors, ran,
                 vup, handlerCalls>>

\* userRoutes.js 44 and 288: getAllDevices
HandlerCountDevices ==
  /\ gpc = "handlerTotal"
  /\ locals' = [locals EXCEPT !.total = getAllDevicesLength(req.userId)]
  /\ seen' = { Devices[req.userId] }
  /\ gpc' = "handlerMobile"
  /\ UNCHANGED <<clockVars, storeVars, caps, hasAccess, softNext, cookieJar,
                 Accounts, Devices, issued, requests, req, idx, errors, ran,
                 vup, responses, handlerCalls>>

\* the message of the error a read of the device store rejects with; the
\* error has no status
DEVICE_STORE_ERROR == "DeviceStoreError"

\* GET /basicInfo, getAllDevices rejects (userRoutes.js 64-67): the catch
\* callback calls res.status(undefined).json(), which throws inside a
\* promise nothing waits for, and no answer is written
HandlerBasicInfoCatch ==
  /\ gpc = "handlerTotal"
  /\ req.route = "basicInfo"
  /\ gpc' = "hung"
  /\ UNCHANGED <<clockVars, storeVars, capVars, Accounts, Devices, issued,
                 requests, req, idx, errors, ran, vup, responses, handlerCalls>>

\* POST /getAvailableAuthMethods, getAllDevices rejects (userRoutes.js
\* 302-308): the catch block sets the status to 500 and answers with the
\* message of the error
HandlerGetAvailableAuthMethodsCatch ==
  /\ gpc = "handlerTotal"
  /\ req.route = "getAvailableAuthMethods"
  /\ responses' = Append(responses,
       Response(500, DEVICE_STORE_ERROR, "", "handler"))
  /\ gpc' = "done"
  /\ UNCHANGED <<clockVars, storeVars, capVars, Accounts, Devices, issued,
                 requests, req, idx, errors, ran, vup, handlerCalls>>

\* userRoutes.js 45-62: getAllMobileDevices, the capability set, the answer
HandlerBasicInfoRespond ==
  /\ gpc = "handlerMobile"
  /\ req.route = "basicInfo"
  /\ LET mobileDeviceCount == getAllMobileDevicesLength(req.userId)
         desktopDeviceCount == locals.total - mobileDeviceCount
     IN  caps' = Append(caps,
           Cap("basicInfo", req.userId, mobileDeviceCount, desktopDeviceCount,
               basicInfoMethods(locals.phoneVerified, mobileDeviceCount,
                                desktopDeviceCount)))
  /\ responses' = Append(responses, Response(200, "", "", "handler"))
  /\ gpc' = "done"
  /\ UNCHANGED <<clockVars, storeVars, locals, hasAccess, softNext, cookieJar,
                 seen, Accounts, Devices, issued, requests, req, idx, errors, ran,
                 vup, handlerCalls>>

\* OrganizationDb.validate.validateOrganizationRequest: the userId encData
\* decrypts to, "" when it does not decrypt
validateOrganizationRequest(encData) ==
  CASE encData = "encU1" -> "u1"
    [] encData = "encU2" -> "u2"
    [] OTHER -> ""

\* POST /getAvailableAuthMethods (userRoutes.js 278-286 and 302-308)
HandlerGetAvailableAuthMethodsValidate ==
  /\ InHandler("getAvailableAuthMethods")
  /\ LET userId == validateOrganizationRequest(req.encData) IN
       IF userId = ""
         THEN /\ responses' = Append(responses,
                   Response(500, "validateOrganizationRequest", "", "handler"))
              /\ gpc' = "done"
              /\ UNCHANGED req
         ELSE /\ req' = [req EXCEPT !.userId = userId]
              /\ gpc' = "handlerTotal"
              /\ UNCHANGED responses
  /\ UNCHANGED <<clockVars, storeVars, capVars, Accounts, Devices, issued,
                 requests, idx, errors, ran, vup, handlerCalls>>

\* userRoutes.js 289-301
HandlerGetAvailableAuthMethodsRespond ==
  /\ gpc = "handlerMobile"
  /\ req.route = "getAvailableAuthMethods"
  /\ LET mobileDeviceCount == getAllMobileDevicesLength(req.userId)
         desktopDeviceCount == locals.total - mobileDeviceCount
     IN  caps' = Append(caps,
           Cap("getAvailableAuthMethods", req.userId, mobileDeviceCount,
               desktopDeviceCount,
               getAvailableAuthMethods(mobileDeviceCount, desktopDeviceCount)))
  /\ responses' = Append(responses, Response(200, "", "", "handler"))
  /\ gpc' = "done"
  /\ UNCHANGED <<clockVars, storeVars, locals, hasAccess, softNext, cookieJar,
                 seen, Accounts, Devices, issued, requests, req, idx, errors, ran,
                 vup, handlerCalls>>

\* the device store while a request waits for its second count: another
\* request registers (k = 1) or removes (k = -1) a mobile device of the user
DeviceStoreWrite(k) ==
  /\ gpc \in {"mobileDeviceCount", "handlerMobile"}
  /\ Devices' = [Devices EXCEPT ![req.userId].mobile = @ + k]
  /\ Devices'[req.userId] \in { c[2] : c \in CapPopulations }
  /\ seen' = seen \cup { Devices'[req.userId] }
  /\ UNCHANGED <<clockVars, storeVars, caps, locals, hasAccess, softNext, cookieJar,
                 Accounts, issued, requests, gpc, req, idx, errors, ran, vup,
                 responses, handlerCalls>>

CapRoutes == {"basicInfo", "getAvailableAuthMethods", "updatePhone"}

\* the requests of the capability routes: updatePhone in the format of its
\* route, the new number in the path
CapRequests ==
  { r \in UNION { RequestsOf(route, now) : route \in CapRoutes } :
      r.route = "updatePhone" => (r.param # "abc" /\ r.phoneNumber = "") }

NewCapRequest == Arrive(CapRequests)

\* the clock of the capability routes steps by the lifetime of a token
CapTickSteps == {TokenLifetime * 1000}

CapNext ==
  \/ \E d \in CapTickSteps : Tick(d)
  \/ NewCapRequest
  \/ HeaderChainFails
  \/ RunVerifyFirebaseTokenOnlyUID
  \/ RunVerifyFirebaseToken
  \/ VerifyUpdatePhoneNumberRead
  \/ VerifyUpdatePhoneNumberCount
  \/ VerifyUpdatePhoneNumberDecide
  \/ RunBodyField
  \/ RunParamField
  \/ AuthValidateNext
  \/ AuthValidateFail
  \/ CheckAccessTokenMiddleware
  \/ HandlerBasicInfoRead
  \/ HandlerCountDevices
  \/ HandlerBasicInfoCatch
  \/ HandlerGetAvailableAuthMethodsCatch
  \/ HandlerBasicInfoRespond
  \/ HandlerGetAvailableAuthMethodsValidate
  \/ HandlerGetAvailableAuthMethodsRespond
  \/ \E k \in {-1, 1} : DeviceStoreWrite(k)
  \/ HandlerUpdatePhone
  \/ HandlerUpdatePhoneThrowsUnhandled
  \/ HandlerUpdatePhoneThrowsHandled
  \/ EndRequest

\* the capability routes after u1 has been given an access token at time 0,
\* with no operation on the exchange store
CapInit ==
  /\ \E c \in CapPopulations :
       /\ Accounts = [u \in Users |-> IF u = "u1" THEN c[1] ELSE Account(TRUE)]
       /\ Devices = [u \in Users |-> IF u = "u1" THEN c[2] ELSE NoDevices]
  /\ issued = { signAccessToken("u1", 0) }
  /\ cookieJar = { accessTokenCookie(signAccessToken("u1", 0), 0) }
  /\ GateIdle

CapSpecInit == StoreInit /\ CapInit

CapSpec == CapSpecInit /\ [][CapNext]_vars
\* ------------------------------------------------------------------------
\* Properties of the exchange store
\* ------------------------------------------------------------------------
Finished(p) == rpc[p] = "done"

\* C1: a lookup that finds the entry of a Put within the TTL returns the
\* userId that was hashed into the doc id it was called with, and a lookup
\* that starts after a lookup of the same hash has returned, with no set()
\* in between, ends with 401 whatever the clock says.
C1_ResolveOnce ==
  \A p \in ResolveProcs : Finished(p) =>
    /\ (ruser[p].exists /\ rage[p] <= TTL) =>
          /\ rresult[p].status = Returned
          /\ hashedUserIdOf(rresult[p].userId, ruser[p].secret) = rhash[p]
    /\ rseen[p] = "returned" => rresult[p].status = NotFound

C1_Witness ==
  \E p \in ResolveProcs, r \in reports :
    /\ Finished(p)
    /\ rseen[p] = "returned"
    /\ rresult[p].status = NotFound
    /\ r[3] = Returned
    /\ r[1] \in ResolveProcs
    /\ now > TTL

\* C2: the userId of one entry is returned to at most one of the callers
\* that looked it up.
C2_ReturnedOnce ==
  \A g \in 1..gen :
    Cardinality({ r \in reports : r[2] = g /\ r[3] = Returned }) <= 1

\* C4: a lookup of an entry older than the TTL ends with 410 and without a
\* userId, the entry is gone afterwards, and a lookup that starts after it,
\* with no set() in between, ends with 401 and not with 410.
C4_ExpiredOnce ==
  /\ \A p \in ResolveProcs : Finished(p) =>
       /\ (ruser[p].exists /\ rage[p] > TTL) =>
             /\ rresult[p].status = Expired
             /\ rresult[p].userId = <<>>
       /\ rseen[p] = "expired" => rresult[p].status = NotFound
  /\ \A h \in HashIds : consumed[h] = "expired" => ~UsersHash[h].exists

C4_Witness ==
  \E p \in ResolveProcs, r \in reports :
    /\ Finished(p)
    /\ rseen[p] = "expired"
    /\ rresult[p].status = NotFound
    /\ r[3] = Expired
    /\ r[1] \in ResolveProcs

\* C5: of the lookups and the sweep that contend for one entry, at most one
\* deletes it and reports on it; the others find it absent.
C5_OneWinner ==
  \A g \in 1..gen :
    Cardinality({ r \in reports : r[2] = g }) <= 1


\* ------------------------------------------------------------------------
\* Properties of the gateway
\* ------------------------------------------------------------------------
\* the runs of a custom validator in the request at hand
Entries(name) == { i \in 1..Len(ran) : ran[i].name = name }

\* the reasons VerifyAccessToken has to throw INVALID_ACCESS_TOKEN
Rejected(token, userId, t) ==
  \/ token = NoJwt
  \/ token.key # JWT_SECRET_KEY
  \/ Seconds(t) >= token.exp
  \/ token.userId # userId
  \/ ~token.isAccessToken

\* C3: an updatePhone request that changed the phone number of an account
\* with at least one second-factor method available has passed
\* VerifyAccessToken.
C3_PhoneChangeNeedsAccessToken ==
  \A r \in 1..Len(responses), i \in Entries("VerifyUpdatePhoneNumber") :
    ( /\ req.route = "updatePhone"
      /\ responses[r].by = "handler"
      /\ responses[r].status = 200
      /\ Accounts[req.userId].phoneNumber = req.param
      /\ ran[i].available )
    => \E j \in Entries("VerifyAccessToken") : ran[j].ok

\* C6: VerifyAccessToken throws INVALID_ACCESS_TOKEN when the cookie is
\* absent, signed with another key, expired, of another userId than the
\* request's, or without a true isAccessToken marker, and returns true in
\* every other case.
C6_AccessTokenCheck ==
  \A i \in Entries("VerifyAccessToken") :
    /\ ran[i].ok <=> ~Rejected(req.accessToken, ran[i].userId, ran[i].t)
    /\ ~ran[i].ok =>
         \E e \in 1..Len(errors) :
           /\ errors[e].idx = ran[i].idx
           /\ errors[e].code = ERROR_CODES.INVALID_ACCESS_TOKEN

C6_Witness ==
  \E i \in Entries("VerifyAccessToken") :
    /\ ran[i].ok
    /\ req.accessToken \in issued
    /\ ran[i].t > req.accessToken.at

\* C7 as stated: a token issued at time t for s passes VerifyAccessToken
\* with subject s at every time up to t + TokenLifetime (ms clock) and
\* fails after it, and fails with any other subject.
C7_ValidUntilDuration ==
  \A i \in Entries("VerifyAccessToken") :
    req.accessToken \in issued =>
      ( ran[i].ok <=>
          /\ ran[i].userId = req.accessToken.userId
          /\ ran[i].t <= req.accessToken.at + TokenLifetime * 1000 )

\* C7 amended: every issued token expires TokenLifetime seconds after its
\* iat, the whole second of its issue; it passes VerifyAccessToken with
\* subject s while the whole second of the clock is before iat +
\* TokenLifetime and fails from that second on, and fails with any other
\* subject.
C7_TokenLifetime ==
  /\ \A tok \in issued :
       /\ tok.isAccessToken
       /\ tok.iat = Seconds(tok.at)
       /\ tok.exp - tok.iat = TokenLifetime
  /\ \A i \in Entries("VerifyAccessToken") :
       req.accessToken \in issued =>
         ( ran[i].ok <=>
             /\ ran[i].userId = req.accessToken.userId
             /\ Seconds(ran[i].t) < Seconds(req.accessToken.at) + TokenLifetime )

C7_Witness ==
  \E i \in Entries("VerifyAccessToken") :
    /\ req.accessToken \in issued
    /\ ~ran[i].ok
    /\ ran[i].userId = req.accessToken.userId
    /\ ran[i].t < req.accessToken.at + TokenLifetime * 1000

\* C8: no custom validator of a chain runs, and no account or device read
\* of one happens, after an earlier check of the request has failed.
C8_StopAtFirstFailure ==
  /\ \A i \in 1..Len(ran) : ran[i].errsBefore = 0
  /\ gpc \in {"totalDeviceCount", "mobileDeviceCount"} => errors = <<>>

\* C9: the response AuthValidate writes carries the code of the failed
\* check that comes first in the chain, and it is the only response.
C9_FirstFailureReported ==
  \A r \in 1..Len(responses) :
    responses[r].by = "AuthValidate" =>
      /\ Len(responses) = 1
      /\ \E e \in 1..Len(errors) :
           /\ \A f \in 1..Len(errors) : errors[e].idx <= errors[f].idx
           /\ responses[r].code = errors[e].code

C9_Witness ==
  /\ Len(responses) = 1
  /\ responses[1].by = "AuthValidate"
  /\ Len(errors) >= 2
  /\ errors[1].code # errors[Len(errors)].code
  /\ responses[1].code = errors[1].code

\* C10: once AuthValidate has run, either no check failed, the handler was
\* called once and AuthValidate wrote no response, or a check failed, one
\* response was sent and the handler was not called.
C10_OneTerminalOutcome ==
  gpc \in {"handler", "done", "hung"} =>
    \/ /\ errors = <<>>
       /\ handlerCalls = 1
       /\ \A r \in 1..Len(responses) : responses[r].by # "AuthValidate"
    \/ /\ errors # <<>>
       /\ handlerCalls = 0
       /\ Len(responses) = 1

\* C11: the response to a request whose chain failed carries the status the
\* table gives for the code of its first failure: MissingHeader 403,
\* MissingBearer 403, InvalidIdentityToken 400, DeviceExists 401,
\* PhoneNumberNotVerified 409, MissingParameter 412 (with the field name),
\* InvalidAccessToken 417, any other code 400.
C11_StatusTable ==
  LET code == errors[1].code
      status == CASE code = ERROR_CODES.MISSING_HEADER -> 403
                  [] code = ERROR_CODES.MISSING_BEARER -> 403
                  [] code = ERROR_CODES.INVALID_FIREBASE_TOKEN -> 400
                  [] code = ERROR_CODES.DEVICE_EXISTS -> 401
                  [] code = ERROR_CODES.PHONE_NUMBER_NOT_VERIFIED -> 409
                  [] code = ERROR_CODES.MISSING_PARAMATER -> 412
                  [] code = ERROR_CODES.INVALID_ACCESS_TOKEN -> 417
                  [] OTHER -> 400
  IN  (gpc \in {"done", "hung"} /\ errors # <<>>) =>
        /\ Len(responses) = 1
        /\ responses[1].status = status
        /\ responses[1].code = code
        /\ code = ERROR_CODES.MISSING_PARAMATER =>
             responses[1].param = errors[1].param

\* ------------------------------------------------------------------------
\* Properties of the capability routes
\* ------------------------------------------------------------------------
\* C12: CheckAccessTokenMiddleware writes no response and calls next() once
\* for every request that reaches it, and the hasAccess it sets is true
\* exactly when VerifyAccessToken passes for the same cookie and userId.
C12_SoftCheck ==
  /\ hasAccess # <<>> =>
       hasAccess[1] = VerifyAccessToken(req.accessToken, req.userId, now)
  /\ softNext <= 1
  /\ softNext = 1 <=> hasAccess # <<>>
  /\ ( /\ req.route = "basicInfo"
       /\ errors = <<>>
       /\ gpc \in {"handler", "handlerTotal", "handlerMobile", "done", "hung"} )
     => /\ softNext = 1
        /\ handlerCalls = 1
        /\ \A r \in 1..Len(responses) : responses[r].by = "handler"

C12_Witness ==
  /\ gpc = "done"
  /\ req.route = "basicInfo"
  /\ hasAccess = <<TRUE>>
  /\ softNext = 1
  /\ Len(responses) = 1

\* C13: VerifyFirebaseTokenOnlyUID writes the uid of the provider into the
\* userId of the request when the provider accepts the bearer token; when
\* it rejects the token the request is left as it was, the check fails with
\* INVALID_FIREBASE_TOKEN, and AuthValidate answers 400 with that code.
C13_IdentityCheck ==
  /\ [][ ( /\ gpc = "chain"
           /\ Check.name = "VerifyFirebaseTokenOnlyUID"
           /\ HeaderError(req.authorization) = "" )
         => LET claims == ValidateIDToken(req.authorization[2]) IN
              IF claims.uid # ""
                THEN /\ req' = [req EXCEPT !.userId = claims.uid]
                     /\ errors' = errors
                ELSE /\ req' = req
                     /\ errors' = Append(errors,
                          [idx |-> idx, code |-> ERROR_CODES.INVALID_FIREBASE_TOKEN,
                           param |-> ""]) ]_vars
  /\ [] ( ( /\ gpc = "done"
            /\ errors # <<>>
            /\ \E i \in Entries("VerifyFirebaseTokenOnlyUID") : ~ran[i].ok )
          => responses = << [status |-> 400,
                             code |-> ERROR_CODES.INVALID_FIREBASE_TOKEN,
                             param |-> "", by |-> "AuthValidate"] >> )

C13_Witness ==
  /\ gpc = "done"
  /\ \E i \in Entries("VerifyFirebaseTokenOnlyUID") : ~ran[i].ok
  /\ req.userId = "u2"
  /\ Len(responses) = 1
  /\ responses[1].status = 400

\* C14: VerifyFirebaseToken passes only when the provider returns a uid and
\* reports the email as verified, and fails with INVALID_FIREBASE_TOKEN
\* otherwise, also for a valid uid; a request admitted through a chain that
\* uses it carries a bearer token of a verified email.
C14_EmailVerified ==
  LET claims == ValidateIDToken(req.authorization[2]) IN
    /\ \A i \in Entries("VerifyFirebaseToken") :
         /\ ran[i].ok <=> (claims.uid # "" /\ claims.email_verified)
         /\ ~ran[i].ok =>
              \E e \in 1..Len(errors) :
                /\ errors[e].idx = ran[i].idx
                /\ errors[e].code = ERROR_CODES.INVALID_FIREBASE_TOKEN
    /\ ( /\ handlerCalls > 0
         /\ \E k \in 1..Len(Validators(req.route)) :
              Validators(req.route)[k].name = "VerifyFirebaseToken" )
       => /\ Len(req.authorization) = 2
          /\ claims.email_verified

C14_Witness ==
  \E i \in Entries("VerifyFirebaseToken") :
    /\ ~ran[i].ok
    /\ ValidateIDToken(req.authorization[2]).uid # ""
    /\ gpc = "done"
    /\ handlerCalls = 0

\* C15: in every capability set computed at a call site, SMS is the
\* phoneVerified flag of the account.
C15_SmsIsPhoneVerified ==
  \A i \in 1..Len(caps) : caps[i].methods.SMS = caps[i].phoneVerified

\* C16: at each of the three call sites QR is (mobile > 0) and SSID is
\* (mobile > 0 and desktop > 0) for the counts the site has read.
C16_QrAndSsid ==
  \A i \in 1..Len(caps) :
    /\ caps[i].site \in {"basicInfo", "VerifyUpdatePhoneNumber",
                         "getAvailableAuthMethods"}
    /\ caps[i].methods.QR = (caps[i].mobile > 0)
    /\ caps[i].methods.SSID = (caps[i].mobile > 0 /\ caps[i].desktop > 0)

C16_Witness ==
  \E i \in 1..Len(caps) :
    /\ caps[i].site = "getAvailableAuthMethods"
    /\ caps[i].mobile > 0
    /\ caps[i].desktop = 0
    /\ caps[i].methods.QR
    /\ ~caps[i].methods.SSID

\* C17: wherever Geolocation is computed it is (mobile > 0), and basicInfo
\* answers {SMS: true, QR: true, SSID: false, Geolocation: true, Smart:
\* false} for a verified phone, two mobile devices and no desktop.
C17_Geolocation ==
  \A i \in 1..Len(caps) :
    /\ "Geolocation" \in DOMAIN caps[i].methods =>
         caps[i].methods.Geolocation = (caps[i].mobile > 0)
    /\ ( /\ caps[i].site = "basicInfo"
         /\ caps[i].phoneVerified
         /\ caps[i].mobile = 2
         /\ caps[i].desktop = 0 )
       => caps[i].methods = [SMS |-> TRUE, QR |-> TRUE, SSID |-> FALSE,
                             Geolocation |-> TRUE, Smart |-> FALSE]

\* C18: every capability set answered to a client has a Smart key, with the
\* value of SSID.
C18_SmartIsSsid ==
  \A i \in 1..Len(caps) :
    caps[i].site \in {"basicInfo", "getAvailableAuthMethods"} =>
      /\ "Smart" \in DOMAIN caps[i].methods
      /\ caps[i].methods.Smart = caps[i].methods.SSID

\* C19: the Max-Age of every accessToken cookie equals the validity of the
\* token it carries, both in seconds.
C19_CookieLifetime ==
  \A c \in cookieJar : c.maxAge = c.token.exp - c.token.iat

\* C20: a step removes an entry of the exchange store only when the entry
\* is older than the TTL at that moment, or when the step is the delete()
\* of a lookup that has read this very entry.
C20_OnlyDeadEntriesDeleted ==
  [][ \A h \in HashIds :
        (UsersHash[h].exists /\ ~UsersHash'[h].exists) =>
          \/ now - UsersHash[h].timestamp > TTL
          \/ \E p \in ResolveProcs :
               /\ rpc[p] \in {"delete", "deleteExpired"}
               /\ rpc'[p] = "done"
               /\ rhash[p] = h
               /\ ruser[p].gen = UsersHash[h].gen ]_vars

\* the chain of the route has a check that writes the uid of the provider
HasIdentityCheck(route) ==
  \E k \in 1..Len(Validators(route)) :
    Validators(route)[k].name \in {"VerifyFirebaseToken", "VerifyFirebaseTokenOnlyUID"}

\* C21: when the handler of a route whose chain has an identity check is
\* called, the userId of the request is the uid the provider gives for the
\* bearer token, whatever userId the client has put into the body.
C21_HandlerSubject ==
  (handlerCalls > 0 /\ HasIdentityCheck(req.route)) =>
    /\ Len(req.authorization) = 2
    /\ ValidateIDToken(req.authorization[2]).uid # ""
    /\ req.userId = ValidateIDToken(req.authorization[2]).uid

C21_Witness ==
  /\ handlerCalls > 0
  /\ req.route = "updatePhone"
  /\ req.authorization = <<"Bearer", "tokU1">>
  /\ req.userId = "u1"
  /\ req.userId \notin BodyUserIds

\* the storeAccessToken request at hand has been answered 200 with a cookie
StoreAccessTokenIssued ==
  /\ req.route = "storeAccessToken"
  /\ gpc = "done"
  /\ responses = << Response(200, "", "", "handler") >>

\* C22: storeAccessToken issues no access token for a successJWT that
\* carries the isAccessToken marker, so every issued token comes from a
\* token of a second-factor flow.
C22_NoRenewalByAccessToken ==
  StoreAccessTokenIssued => ~req.successJWT.isAccessToken

\* C23: the storeAccessToken handler adds a token or a cookie only for a
\* successJWT that is signed with the key of the server, not expired, and
\* of the userId the identity check has written; it answers 406 when the
\* successJWT does not verify and 401 when the userIds differ, and leaves
\* the tokens and cookies as they were in both cases; otherwise it answers
\* 200 and sets the cookie with an access token of that userId.
C23_StoreAccessTokenOutcomes ==
  [][ InHandler("storeAccessToken") =>
        LET j == req.successJWT
            valid == /\ j # NoJwt
                     /\ j.key = JWT_SECRET_KEY
                     /\ Seconds(now) < j.exp
            subject == ValidateIDToken(req.authorization[2]).uid
        IN
          /\ Len(responses') = 1
          /\ (issued' # issued \/ cookieJar' # cookieJar) =>
               (valid /\ j.userId = subject)
          /\ ~valid =>
               /\ responses'[1].status = 406
               /\ issued' = issued
               /\ cookieJar' = cookieJar
          /\ (valid /\ j.userId # subject) =>
               /\ responses'[1].status = 401
               /\ issued' = issued
               /\ cookieJar' = cookieJar
          /\ (valid /\ j.userId = subject) =>
               /\ responses'[1].status = 200
               /\ \E c \in cookieJar' :
                    /\ c.at = now
                    /\ c.token \in issued'
                    /\ c.token.userId = subject
                    /\ c.token.isAccessToken ]_vars

C23_Witness ==
  /\ req.route = "storeAccessToken"
  /\ gpc = "done"
  /\ req.authorization = <<"Bearer", "tokU1">>
  /\ jwtVerify(req.successJWT, now)
  /\ req.successJWT.userId = "u2"
  /\ responses = << Response(401, "Users do not match.", "", "handler") >>
  /\ issued = {}
  /\ cookieJar = {}

\* C24: the QR and SSID of every capability set computed for a request are
\* those of the devices the user had at one instant between the two count
\* reads, and SSID is not reported for a user who had no desktop device at
\* any of these instants.
C24_OneSnapshot ==
  \A i \in 1..Len(caps) :
    /\ \E p \in seen :
         /\ caps[i].methods.QR = (p.mobile > 0)
         /\ caps[i].methods.SSID = (p.mobile > 0 /\ p.desktop > 0)
    /\ caps[i].methods.SSID => \E p \in seen : p.desktop > 0

\* C25: a set() puts its document in the place of whatever the hash held,
\* with the creation time of its own call, and when it has replaced a live
\* entry at most one lookup of the hash returns a userId from the two
\* writes.
C25_OneEntryPerHash ==
  /\ [][ (ppc = "set" /\ ppc' = "idle") =>
           /\ UsersHash'[pdoc.id].exists
           /\ UsersHash'[pdoc.id].gen = pdoc.doc.gen
           /\ UsersHash'[pdoc.id].timestamp = pdoc.doc.timestamp
           /\ \A h \in HashIds \ {pdoc.id} : UsersHash'[h] = UsersHash[h] ]_vars
  /\ [] ( \A p, q \in ResolveProcs :
            ( /\ p # q
              /\ Finished(p)
              /\ Finished(q)
              /\ rhash[p] = rhash[q]
              /\ rresult[p].status = Returned
              /\ ruser[p].over # 0
              /\ ruser[q].exists
              /\ ruser[q].gen \in {ruser[p].gen, ruser[p].over} )
            => rresult[q].status # Returned )

IdentityChecks == {"VerifyFirebaseToken", "VerifyFirebaseTokenOnlyUID"}

\* C26: in every chain a VerifyAccessToken or VerifyUpdatePhoneNumber has
\* an identity check before it, and when the handler is called every run
\* of VerifyAccessToken has compared the token with the uid the provider
\* gives for the bearer token, written by an identity check that ran
\* earlier in the chain.
C26_IdentityBeforeAccessToken ==
  /\ \A chain \in ValidatorChains : \A k \in 1..Len(chain) :
       chain[k].name \in {"VerifyAccessToken", "VerifyUpdatePhoneNumber"} =>
         \E j \in 1..(k - 1) : chain[j].name \in IdentityChecks
  /\ handlerCalls > 0 =>
       \A i \in Entries("VerifyAccessToken") :
         /\ ran[i].userId = ValidateIDToken(req.authorization[2]).uid
         /\ \E j \in 1..(i - 1) :
              /\ ran[j].name \in IdentityChecks
              /\ ran[j].idx < ran[i].idx
              /\ ran[j].ok
              /\ ran[j].userId = ran[i].userId

C26_Witness ==
  /\ handlerCalls > 0
  /\ req.route = "updateField"
  /\ \E i \in Entries("VerifyAccessToken") :
       /\ ran[i].ok
       /\ ran[i].userId = "u1"
       /\ ran[i].userId \notin BodyUserIds
       /\ req.accessToken \in issued

\* C27: an updatePhone request whose handler has run has got one response,
\* written by the handler: 200 when the update of the account succeeded
\* and an error status when it failed.
C27_UpdatePhoneOneResponse ==
  ( /\ req.route = "updatePhone"
    /\ handlerCalls > 0
    /\ gpc \in {"done", "hung"} )
  => /\ Len(responses) = 1
     /\ responses[1].by = "handler"
     /\ responses[1].status = 200 <=> Accounts[req.userId].exists

\* a step in which a read or an update of a store fails in a handler with
\* an error that has no status
StoreCallFails ==
  \/ /\ gpc = "handlerTotal"
     /\ gpc' \in {"done", "hung"}
  \/ /\ InHandler("updatePhone")
     /\ ~Accounts[req.userId].exists
     /\ gpc' \in {"done", "hung"}

\* C28: when a store call fails in a handler with an error without a
\* status, the request is answered once with a status between 500 and 599
\* and not with the message of the error.
C28_StoreFailureIs500 ==
  [][ StoreCallFails =>
        /\ Len(responses') = 1
        /\ responses'[1].status \in 500..599
        /\ responses'[1].code # DEVICE_STORE_ERROR ]_vars

\* C29: in the step in which deleteOldHashes returns, every entry its query
\* has selected, the entries older than the TTL at the time it read the
\* clock, is gone from the store.
C29_SweepRemovesOnReturn ==
  [][ (spc = "query" /\ spc' = "idle") =>
        \A h \in HashIds :
          (UsersHash[h].exists /\ stime - UsersHash[h].timestamp > TTL) =>
            ~UsersHash'[h].exists ]_vars

\* C30: a lookup that finds an entry aged exactly TTL returns its userId
\* and one that finds it aged TTL + 1 ends with 410; the query of
\* deleteOldHashes leaves an entry aged exactly TTL alone and selects one
\* aged TTL + 1.
C30_SameBoundary ==
  /\ [] ( \A p \in ResolveProcs : (Finished(p) /\ ruser[p].exists) =>
            /\ rage[p] = TTL => rresult[p].status = Returned
            /\ rage[p] = TTL + 1 => rresult[p].status = Expired )
  /\ [][ (spc = "query" /\ spc' = "idle") =>
           \A h \in HashIds : UsersHash[h].exists =>
             LET age == stime - UsersHash[h].timestamp
                 selected == \E d \in pending' :
                               d.id = h /\ d.gen = UsersHash[h].gen
             IN  /\ age = TTL => ~selected
                 /\ age = TTL + 1 => selected ]_vars

C30_Witness ==
  /\ \E p \in ResolveProcs :
       /\ Finished(p)
       /\ rage[p] = TTL
       /\ rresult[p].status = Returned
  /\ \E d \in pending :
       /\ UsersHash[d.id].exists
       /\ UsersHash[d.id].gen = d.gen
       /\ now - UsersHash[d.id].timestamp = TTL + 1

\* the capability set i of the request at hand was computed after an
\* updatePhone request had changed the phone number of its account
AfterPhoneUpdate(i) ==
  /\ Accounts[caps[i].userId].exists
  /\ Accounts[caps[i].userId].phoneNumber = "+15550002"
  /\ req.route = "updatePhone" => gpc \notin {"done", "hung"}

\* C31: a successful updatePhone changes the phoneNumber of the account,
\* sets phoneVerified to false and leaves the devices alone; every
\* capability set computed for the account afterwards has SMS = false, and
\* QR, SSID and Geolocation as VerifyUpdatePhoneNumber computes them from
\* the same device counts.
C31_PhoneUpdateFrame ==
  /\ [][ ( /\ InHandler("updatePhone")
           /\ Len(responses') = 1
           /\ responses'[1].status = 200 )
         => /\ Accounts' = [Accounts EXCEPT
                              ![req.userId].phoneNumber = req.param,
                              ![req.userId].phoneVerified = FALSE]
            /\ Devices' = Devices ]_vars
  /\ [] ( \A i \in 1..Len(caps) : AfterPhoneUpdate(i) =>
            LET before == availableMethods(FALSE, caps[i].mobile, caps[i].desktop)
                m == caps[i].methods
            IN  /\ m.SMS = FALSE
                /\ m.QR = before.QR
                /\ m.SSID = before.SSID
                /\ "Geolocation" \in DOMAIN m
                /\ m.Geolocation = before.Geolocation )

\* C32: two different (userId, secret) pairs never meet under one hash: a
\* set() that finds an entry under its doc id finds the entry of its own
\* pair, so it never replaces the entry of another userId.
C32_DistinctHashInputs ==
  [][ (ppc = "set" /\ ppc' = "idle" /\ UsersHash[pdoc.id].exists) =>
        /\ UsersHash[pdoc.id].userId = pdoc.doc.userId
        /\ UsersHash[pdoc.id].secret = pdoc.doc.secret ]_vars
====
